---- MODULE Spec2Model ----
(***************************************************************************)
(* Personal Finance Agent: the three-stage pipeline (InputParserAgent,     *)
(* CategoryClassifierAgent, BudgetAnalyzerAgent), the session state it     *)
(* mutates, and the agent logger every stage feeds.                        *)
(*                                                                         *)
(* Conventions.                                                            *)
(*  - A text is a sequence of one-character strings.  The three code       *)
(*    points the source file holds for its primary currency symbol are     *)
(*    written "U+00E2", "U+201A", "U+00B9"; the rupee sign itself is       *)
(*    "U+20B9".                                                            *)
(*  - An amount is the parsed decimal counted in hundredths (500 is 50000, *)
(*    2.50 is 250), so sums are exact; float rounding is not modelled.     *)
(*  - Python objects that can be reached from two places (dicts, Expense   *)
(*    objects) live in heap and are named by their address; a value a      *)
(*    caller alone owns is held inline.                                    *)
(*  - datetime.now() is a logical clock: its k-th reading is k.            *)
(*  - print and json.dumps in AgentLogger.log are taken to succeed: the     *)
(*    console plays no part in the state.                                  *)
(***************************************************************************)
EXTENDS Integers, Sequences, FiniteSets, TLC

\* ------------------------------------------------------------------ bounds

\* Process calls made on one orchestrator.
MaxCalls == 4

\* Assignments callers make to the values their calls returned.
MaxTampers == 1

\* ------------------------------------------------------------------- texts

Digits == {"0", "1", "2", "3", "4", "5", "6", "7", "8", "9"}

\* re's \s, as far as the texts of this model use it.
Whitespace == {" ", "\t", "\n"}

DigitValue(c) ==
    CASE c = "0" -> 0 [] c = "1" -> 1 [] c = "2" -> 2 [] c = "3" -> 3
      [] c = "4" -> 4 [] c = "5" -> 5 [] c = "6" -> 6 [] c = "7" -> 7
      [] c = "8" -> 8 [] c = "9" -> 9

\* str.lower() on one character.
LowerChar(c) ==
    CASE c = "A" -> "a" [] c = "B" -> "b" [] c = "C" -> "c" [] c = "D" -> "d"
      [] c = "E" -> "e" [] c = "F" -> "f" [] c = "G" -> "g" [] c = "H" -> "h"
      [] c = "I" -> "i" [] c = "J" -> "j" [] c = "K" -> "k" [] c = "L" -> "l"
      [] c = "M" -> "m" [] c = "N" -> "n" [] c = "O" -> "o" [] c = "P" -> "p"
      [] c = "Q" -> "q" [] c = "R" -> "r" [] c = "S" -> "s" [] c = "T" -> "t"
      [] c = "U" -> "u" [] c = "V" -> "v" [] c = "W" -> "w" [] c = "X" -> "x"
      [] c = "Y" -> "y" [] c = "Z" -> "z" [] OTHER -> c

Lower(text) == [i \in 1..Len(text) |-> LowerChar(text[i])]

\* keyword in description: a substring test.
Contains(text, word) ==
    \E i \in 1..(Len(text) - Len(word) + 1) :
        \A k \in 1..Len(word) : text[i + k - 1] = word[k]

\* The literal `sym` stands in `text` at position i.
LiteralAt(text, i, sym) ==
    /\ i + Len(sym) - 1 <= Len(text)
    /\ \A k \in 1..Len(sym) : text[i + k - 1] = sym[k]

IsDigitAt(text, i) == i >= 1 /\ i <= Len(text) /\ text[i] \in Digits

\* \s* from position i: the first position at or after i that holds no
\* whitespace (Len(text) + 1 when the text ends first).
SkipWhitespace(text, i) ==
    LET stops == {j \in i..(Len(text) + 1) :
                    j = Len(text) + 1 \/ text[j] \notin Whitespace}
    IN  CHOOSE j \in stops : \A k \in stops : j <= k

\* \d+ from position i (a digit): the position after the digit run.
DigitsEnd(text, i) ==
    LET stops == {j \in i..(Len(text) + 1) :
                    j = Len(text) + 1 \/ text[j] \notin Digits}
    IN  CHOOSE j \in stops : \A k \in stops : j <= k

RECURSIVE DigitsValue(_, _, _)
\* int of the digits text[i..j-1].
DigitsValue(text, i, j) ==
    IF i >= j THEN 0
    ELSE DigitsValue(text, i, j - 1) * 10 + DigitValue(text[j - 1])

\* (\d+(?:\.\d{2})?) at position i, then float(): the value in hundredths.
\* The digit run is greedy; the optional group takes a point and the two
\* digits after it when both are there, and nothing otherwise.
NumeralAt(text, i) ==
    IF ~IsDigitAt(text, i) THEN [found |-> FALSE, value |-> 0]
    ELSE LET e == DigitsEnd(text, i)
             frac == /\ e <= Len(text)
                     /\ text[e] = "."
                     /\ IsDigitAt(text, e + 1)
                     /\ IsDigitAt(text, e + 2)
         IN  [found |-> TRUE,
              value |-> DigitsValue(text, i, e) * 100
                        + (IF frac THEN DigitsValue(text, e + 1, e + 3) ELSE 0)]

\* re.search(sym \s* (\d+(?:\.\d{2})?), text): the leftmost match.
SearchSymbolAmount(text, sym) ==
    LET hits == {i \in 1..Len(text) :
                    /\ LiteralAt(text, i, sym)
                    /\ NumeralAt(text, SkipWhitespace(text, i + Len(sym))).found}
    IN  IF hits = {} THEN [found |-> FALSE, value |-> 0]
        ELSE LET i == CHOOSE h \in hits : \A k \in hits : h <= k
             IN  NumeralAt(text, SkipWhitespace(text, i + Len(sym)))

\* re.search((\d+(?:\.\d{2})?), text): the leftmost numeral.
SearchNumber(text) ==
    LET hits == {i \in 1..Len(text) : IsDigitAt(text, i)}
    IN  IF hits = {} THEN [found |-> FALSE, value |-> 0]
        ELSE NumeralAt(text, CHOOSE h \in hits : \A k \in hits : h <= k)

\* The currency symbols as the source file spells them.
RupeeSymbol == <<"U+00E2", "U+201A", "U+00B9">>
DollarSymbol == <<"$">>

\* parse with the two symbol tests swapped: the dollar match is tried first.
parse_dollar_first(text, now) ==
    LET rupee_match == SearchSymbolAmount(text, RupeeSymbol)
        dollar_match == SearchSymbolAmount(text, DollarSymbol)
        number_match == SearchNumber(text)
        amount == IF dollar_match.found THEN dollar_match.value
                  ELSE IF rupee_match.found THEN rupee_match.value
                  ELSE IF number_match.found THEN number_match.value
                  ELSE 0
        currency == IF dollar_match.found THEN DollarSymbol
                    ELSE IF rupee_match.found THEN RupeeSymbol
                    ELSE RupeeSymbol
    IN  [amount |-> amount,
         currency |-> currency,
         description |-> text,
         raw_input |-> text,
         parsed_at |-> now]

\* ExpenseParserTool.parse; now is the reading of datetime.now().
parse(text, now) ==
    LET rupee_match == SearchSymbolAmount(text, RupeeSymbol)
        dollar_match == SearchSymbolAmount(text, DollarSymbol)
        number_match == SearchNumber(text)
        amount == IF rupee_match.found THEN rupee_match.value
                  ELSE IF dollar_match.found THEN dollar_match.value
                  ELSE IF number_match.found THEN number_match.value
                  ELSE 0
        currency == IF rupee_match.found THEN RupeeSymbol
                    ELSE IF dollar_match.found THEN DollarSymbol
                    ELSE RupeeSymbol
    IN  [amount |-> amount,
         currency |-> currency,
         description |-> text,
         raw_input |-> text,
         parsed_at |-> now]

\* ------------------------------------------------------------- categories

FoodKeywords ==
    << <<"g","r","o","c","e","r","y">>,
       <<"g","r","o","c","e","r","i","e","s">>,
       <<"r","e","s","t","a","u","r","a","n","t">>,
       <<"c","a","f","e">>,
       <<"c","o","f","f","e","e">>,
       <<"l","u","n","c","h">>,
       <<"d","i","n","n","e","r">>,
       <<"b","r","e","a","k","f","a","s","t">>,
       <<"f","o","o","d">>,
       <<"m","e","a","l">>,
       <<"e","a","t","i","n","g">>,
       <<"d","m","a","r","t">>,
       <<"r","e","l","i","a","n","c","e">>,
       <<"b","i","g","b","a","s","k","e","t">>,
       <<"s","w","i","g","g","y">>,
       <<"z","o","m","a","t","o">>,
       <<"b","i","r","y","a","n","i">>,
       <<"c","h","a","i">>,
       <<"t","e","a">>,
       <<"s","n","a","c","k">> >>

TransportationKeywords ==
    << <<"u","b","e","r">>,
       <<"l","y","f","t">>,
       <<"g","a","s">>,
       <<"f","u","e","l">>,
       <<"p","a","r","k","i","n","g">>,
       <<"t","a","x","i">>,
       <<"m","e","t","r","o">>,
       <<"b","u","s">>,
       <<"t","r","a","i","n">>,
       <<"t","r","a","v","e","l">>,
       <<"t","r","i","p">>,
       <<"f","l","i","g","h","t">>,
       <<"c","a","r">>,
       <<"v","e","h","i","c","l","e">>,
       <<"c","o","m","m","u","t","e">>,
       <<"a","u","t","o">>,
       <<"r","i","c","k","s","h","a","w">>,
       <<"o","l","a">>,
       <<"r","a","p","i","d","o">>,
       <<"p","e","t","r","o","l">>,
       <<"d","i","e","s","e","l">> >>

EntertainmentKeywords ==
    << <<"m","o","v","i","e">>,
       <<"c","i","n","e","m","a">>,
       <<"n","e","t","f","l","i","x">>,
       <<"s","p","o","t","i","f","y">>,
       <<"g","a","m","e">>,
       <<"c","o","n","c","e","r","t">>,
       <<"t","h","e","a","t","e","r">>,
       <<"f","u","n">>,
       <<"e","n","t","e","r","t","a","i","n","m","e","n","t">>,
       <<"h","o","t","s","t","a","r">>,
       <<"p","r","i","m","e">>,
       <<"p","v","r">>,
       <<"i","n","o","x">>,
       <<"g","a","m","i","n","g">> >>

UtilitiesKeywords ==
    << <<"e","l","e","c","t","r","i","c">>,
       <<"e","l","e","c","t","r","i","c","i","t","y">>,
       <<"w","a","t","e","r">>,
       <<"i","n","t","e","r","n","e","t">>,
       <<"p","h","o","n","e">>,
       <<"m","o","b","i","l","e">>,
       <<"b","i","l","l">>,
       <<"u","t","i","l","i","t","y">>,
       <<"b","r","o","a","d","b","a","n","d">>,
       <<"w","i","f","i">>,
       <<"j","i","o">>,
       <<"a","i","r","t","e","l">>,
       <<"v","i">>,
       <<"b","s","n","l">>,
       <<"g","a","s">>,
       <<"l","p","g">> >>

ShoppingKeywords ==
    << <<"a","m","a","z","o","n">>,
       <<"m","a","l","l">>,
       <<"s","t","o","r","e">>,
       <<"s","h","o","p">>,
       <<"c","l","o","t","h","i","n","g">>,
       <<"c","l","o","t","h","e","s">>,
       <<"p","u","r","c","h","a","s","e">>,
       <<"b","o","u","g","h","t">>,
       <<"f","l","i","p","k","a","r","t">>,
       <<"m","y","n","t","r","a">>,
       <<"a","j","i","o">>,
       <<"m","e","e","s","h","o">>,
       <<"s","h","o","p","p","i","n","g">>,
       <<"s","h","i","r","t">>,
       <<"s","h","o","e","s">> >>

HealthcareKeywords ==
    << <<"d","o","c","t","o","r">>,
       <<"p","h","a","r","m","a","c","y">>,
       <<"m","e","d","i","c","i","n","e">>,
       <<"h","o","s","p","i","t","a","l">>,
       <<"c","l","i","n","i","c">>,
       <<"m","e","d","i","c","a","l">>,
       <<"h","e","a","l","t","h">>,
       <<"a","p","o","l","l","o">>,
       <<"f","o","r","t","i","s">>,
       <<"p","r","e","s","c","r","i","p","t","i","o","n">> >>

OtherKeywords == << >>

\* self.categories: a dict, iterated in insertion order.
categories ==
    << [category |-> "food", keywords |-> FoodKeywords],
       [category |-> "transportation", keywords |-> TransportationKeywords],
       [category |-> "entertainment", keywords |-> EntertainmentKeywords],
       [category |-> "utilities", keywords |-> UtilitiesKeywords],
       [category |-> "shopping", keywords |-> ShoppingKeywords],
       [category |-> "healthcare", keywords |-> HealthcareKeywords],
       [category |-> "other", keywords |-> OtherKeywords] >>

\* any(keyword in description_lower for keyword in keywords)
AnyKeyword(description_lower, keywords) ==
    \E k \in 1..Len(keywords) : Contains(description_lower, keywords[k])

\* classify without the early return: the last matching category wins.
classify_last_match(description) ==
    LET description_lower == Lower(description)
        hits == {i \in 1..Len(categories) :
                    AnyKeyword(description_lower, categories[i].keywords)}
    IN  IF hits = {} THEN "other"
        ELSE categories[CHOOSE h \in hits : \A k \in hits : h >= k].category

\* CategoryClassifierTool.classify: the first category, in the dict's order,
\* one of whose keywords occurs in the lower-cased description.
classify(description) ==
    LET description_lower == Lower(description)
        hits == {i \in 1..Len(categories) :
                    AnyKeyword(description_lower, categories[i].keywords)}
    IN  IF hits = {} THEN "other"
        ELSE categories[CHOOSE h \in hits : \A k \in hits : h <= k].category

\* ------------------------------------------------------------------ inputs

\* A str argument of process_expense.
Str(text) == [is_str |-> TRUE, text |-> text]

\* None passed where the str is expected.
NoneInput == [is_str |-> FALSE, text |-> <<"None">>]

InputChai == Str(RupeeSymbol \o <<"5", " ", "c", "h", "a", "i">>)
InputGas == Str(<<"$", "7", " ", "G", "a", "s">>)
InputTea == Str(<<"t", "e", "a", " ", "2", ".", "0", "0">>)
InputWifi == Str(<<"w", "i", "f", "i">>)

\* What callers pass to process_expense in this model.
Inputs == {InputChai, InputGas, InputTea, InputWifi, NoneInput}

\* What the caller that assigns to returned values passes.
CallerInputs == {InputChai, InputWifi, NoneInput}

\* The rupee sign, U+20B9: one code point, none of the three of RupeeSymbol.
RupeeSign == <<"U+20B9">>

\* Two texts of run_demo's sample_expenses, written with the rupee sign.
InputGroceries ==
    Str(<<"S", "p", "e", "n", "t", " ", "U+20B9", "5", "0", "0", " ", "o",
          "n", " ", "g", "r", "o", "c", "e", "r", "i", "e", "s", " ", "a",
          "t", " ", "D", "M", "a", "r", "t">>)
InputRickshaw ==
    Str(<<"A", "u", "t", "o", " ", "r", "i", "c", "k", "s", "h", "a", "w",
          " ", "r", "i", "d", "e", " ", "U+20B9", "8", "0">>)

DemoInputs == {InputGroceries, InputRickshaw}

\* How many requests the server is sent.
MaxRequests == 2

\* The texts of the requests in this model: ExpenseInput.text is a str.
ServerInputs == {InputChai, InputGas}

\* Words of the descriptions handed to the classifier: one keyword of each
\* category (some in upper case, one inside a longer word), the keyword the
\* table lists twice, and a word that is no keyword.
DescriptionWords ==
    { <<"C", "h", "a", "i">>,
      <<"s", "t", "e", "a", "k">>,
      <<"b", "u", "s">>,
      <<"G", "a", "s">>,
      <<"P", "V", "R">>,
      <<"v", "i">>,
      <<"s", "h", "o", "p">>,
      <<"h", "e", "a", "l", "t", "h">>,
      <<"x", "y", "z">> }

MaxWords == 2

\* The descriptions of at most n words, joined by single spaces.
RECURSIVE Phrases(_)
Phrases(n) ==
    IF n = 0 THEN {<< >>}
    ELSE LET shorter == Phrases(n - 1)
         IN  shorter \cup
             {IF p = << >> THEN w ELSE p \o <<" ">> \o w :
                 p \in shorter, w \in DescriptionWords}

Descriptions == Phrases(MaxWords)

\* Pieces of the texts handed to the parser: the two symbols the patterns
\* name, two digits, the decimal point, a blank and a letter.
TextTokens ==
    { RupeeSymbol, DollarSymbol, <<"1">>, <<"2">>, <<".">>, <<" ">>, <<"x">> }

MaxTokens == 4

\* The texts of at most n pieces.
RECURSIVE TokenTexts(_)
TokenTexts(n) ==
    IF n = 0 THEN {<< >>}
    ELSE LET shorter == TokenTexts(n - 1)
         IN  shorter \cup {p \o w : p \in shorter, w \in TextTokens}

Texts == TokenTexts(MaxTokens)

\* The one caller of a single-threaded run, and the request threads of the
\* server.
Threads == {1, 2}
MainThread == {1}

\* ------------------------------------------------------------------- state

VARIABLES
    expenses,   \* session_state.expenses: the addresses of the Expense objects
    logs,       \* logger.logs: the list of log entries
    heap,       \* the dicts and Expense objects, by address 1..Len(heap)
    clock,      \* readings of datetime.now() so far
    frame,      \* per thread: where its process_expense call is, its locals
    held,       \* per thread: what its latest calls returned to it
    history,    \* the completed process_expense calls, in order of completion
    tampers     \* assignments callers made to returned values so far

vars == <<expenses, logs, heap, clock, frame, held, history, tampers>>

\* {}: a dict without keys.
EmptyDict == [k \in {} |-> 0]

NoException == [type |-> "", reason |-> <<>>]

\* re.search(pattern, None): the TypeError of a non-string argument.
ParseError(raw_input) ==
    [type |-> "TypeError",
     reason |-> <<"expected string or bytes-like object, got 'NoneType'">>]

\* Whether self.tool.parse(raw_input) raises.
ParseRaises(raw_input) == ~raw_input.is_str

IdleFrame ==
    [pc |-> "idle", raw_input |-> NoneInput, parsed_data |-> 0, expense |-> 0,
     insights |-> 0, exc |-> NoException, emitted |-> <<>>]

NothingHeld ==
    [outcome |-> "none",
     result |-> [expense |-> [ref |-> 0, dict |-> EmptyDict], insights |-> 0],
     error |-> NoException,
     summary |-> [taken |-> FALSE,
                  statistics |-> [total_expenses |-> 0, total_spending |-> 0,
                                  category_breakdown |-> <<>>],
                  all_expenses |-> <<>>],
     logs |-> [taken |-> FALSE, alias |-> FALSE, list |-> <<>>]]

\* PersonalFinanceAgentSystem.__init__: an empty logger and an empty session;
\* the session id and created_at took the clock's readings 0 and 1.
Init ==
    /\ expenses = <<>>
    /\ logs = <<>>
    /\ heap = <<>>
    /\ clock = 2
    /\ frame = [t \in Threads |-> IdleFrame]
    /\ held = [t \in Threads |-> NothingHeld]
    /\ history = <<>>
    /\ tampers = 0

session_info == [session_id |-> <<"session_", 0>>, created_at |-> 1]

\* --------------------------------------------------------------- the logger

\* AgentLogger.log: `data or {}` keeps the caller's dict object when it is a
\* dict with keys, and makes a new empty dict otherwise (data = 0 is None).
\* Gives the logs and heap after the call.
log(lg, hp, now, agent_name, event_type, message, data) ==
    LET fresh == IF data = 0 THEN TRUE ELSE DOMAIN hp[data] = {}
        hp2 == IF fresh THEN Append(hp, EmptyDict) ELSE hp
        addr == IF fresh THEN Len(hp) + 1 ELSE data
        log_entry == [timestamp |-> now, agent |-> agent_name,
                      event_type |-> event_type, message |-> message,
                      data |-> addr]
    IN  [logs |-> Append(lg, log_entry), heap |-> hp2]

\* The record a call keeps of one log() call it made.
Emitted(agent_name, event_type, message) ==
    [agent |-> agent_name, event_type |-> event_type, message |-> message]

\* AgentLogger.get_logs: the list object itself.
get_logs(lg) == [taken |-> TRUE, alias |-> TRUE, list |-> lg]

\* ------------------------------------------------------------ session state

\* totals[category] = amount: the assignment without the dict.get.
AddToTotalsOverwrite(totals, category, amount) ==
    IF \E i \in 1..Len(totals) : totals[i].category = category
    THEN [i \in 1..Len(totals) |->
            IF totals[i].category = category
            THEN [category |-> category, amount |-> amount]
            ELSE totals[i]]
    ELSE Append(totals, [category |-> category, amount |-> amount])

\* dict.get(category, 0) + amount on an insertion-ordered dict, held as the
\* sequence of its items.
AddToTotals(totals, category, amount) ==
    IF \E i \in 1..Len(totals) : totals[i].category = category
    THEN [i \in 1..Len(totals) |->
            IF totals[i].category = category
            THEN [category |-> category, amount |-> totals[i].amount + amount]
            ELSE totals[i]]
    ELSE Append(totals, [category |-> category, amount |-> amount])

RECURSIVE CategoryTotalsOf(_, _, _)
\* The loop of get_category_totals over the first n expenses.
CategoryTotalsOf(exps, hp, n) ==
    IF n = 0 THEN <<>>
    ELSE AddToTotals(CategoryTotalsOf(exps, hp, n - 1),
                     hp[exps[n]].category, hp[exps[n]].amount)

\* SessionState.get_category_totals
get_category_totals(exps, hp) == CategoryTotalsOf(exps, hp, Len(exps))

RECURSIVE TotalOf(_, _, _)
TotalOf(exps, hp, n) ==
    IF n = 0 THEN 0 ELSE TotalOf(exps, hp, n - 1) + hp[exps[n]].amount

\* A total kept from before the latest append.
get_total_stale(exps, hp) ==
    IF exps = <<>> THEN 0 ELSE TotalOf(exps, hp, Len(exps) - 1)

\* SessionState.get_total
get_total(exps, hp) == TotalOf(exps, hp, Len(exps))

\* SessionState.get_expense_count
get_expense_count(exps) == Len(exps)

\* self.expenses.insert(0, expense)
add_expense_front(exps, expense) == <<expense>> \o exps

\* The append done twice.
add_expense_twice(exps, expense) == Append(Append(exps, expense), expense)

\* SessionState.add_expense
add_expense(exps, expense) == Append(exps, expense)

\* return self.__dict__: the object's own attribute dict.
to_dict_alias(hp, addr) == [ref |-> addr, dict |-> hp[addr]]

\* Expense.to_dict: asdict builds a new dict, which nothing else references
\* (ref = 0); ref = a would be the object at address a itself.
to_dict(hp, addr) == [ref |-> 0, dict |-> hp[addr]]

\* A value that stands for an exception raised instead of a value returned.
Raised(v) == "exception" \in DOMAIN v

\* A maximum search that keeps the later of two equal items (>= for >).
MaxItemLast(totals) ==
    LET best == {i \in 1..Len(totals) :
                    \A j \in 1..Len(totals) : totals[j].amount <= totals[i].amount}
    IN  totals[CHOOSE i \in best : \A j \in best : j <= i]

\* max(category_totals.items(), key=lambda x: x[1]): the first item, in the
\* dict's order, whose amount no other item exceeds.
MaxItem(totals) ==
    LET best == {i \in 1..Len(totals) :
                    \A j \in 1..Len(totals) : totals[j].amount <= totals[i].amount}
    IN  totals[CHOOSE i \in best : \A j \in best : i <= j]

\* _generate_insights with the top category's share of the total added: the
\* division raises when the total is 0.
generate_insights_share(exps, hp) ==
    LET total == get_total(exps, hp)
        category_totals == get_category_totals(exps, hp)
        top_category == IF category_totals # <<>>
                        THEN MaxItem(category_totals)
                        ELSE [category |-> "none", amount |-> 0]
    IN  IF total = 0
        THEN [exception |-> [type |-> "ZeroDivisionError",
                             reason |-> <<"division by zero">>]]
        ELSE [total_spending |-> total,
              expense_count |-> get_expense_count(exps),
              category_breakdown |-> category_totals,
              top_category |-> [name |-> top_category.category,
                                amount |-> top_category.amount],
              top_share |-> (top_category.amount * 100) \div total]

\* BudgetAnalyzerAgent._generate_insights
generate_insights(exps, hp) ==
    LET total == get_total(exps, hp)
        category_totals == get_category_totals(exps, hp)
        expense_count == get_expense_count(exps)
        top_category == IF category_totals # <<>>
                        THEN MaxItem(category_totals)
                        ELSE [category |-> "none", amount |-> 0]
    IN  [total_spending |-> total,
         expense_count |-> expense_count,
         category_breakdown |-> category_totals,
         top_category |-> [name |-> top_category.category,
                           amount |-> top_category.amount]]

\* PersonalFinanceAgentSystem.get_summary, without the constant session_info.
get_summary(exps, hp) ==
    [taken |-> TRUE,
     statistics |-> [total_expenses |-> get_expense_count(exps),
                     total_spending |-> get_total(exps, hp),
                     category_breakdown |-> get_category_totals(exps, hp)],
     all_expenses |-> [i \in 1..Len(exps) |-> to_dict(hp, exps[i])]]

\* ---------------------------------------------------------------- pipeline

\* process_expense calls begun so far.
CallsBegun == Len(history) + Cardinality({t \in Threads : frame[t].pc # "idle"})

\* The thread's frame after one more log() call of its process_expense call.
Emit(f, agent_name, event_type, message) ==
    [f EXCEPT !.emitted = Append(@, Emitted(agent_name, event_type, message))]

\* PersonalFinanceAgentSystem.process_expense is entered with raw_input.
ProcessExpense(t, raw_input) ==
    /\ frame[t].pc = "idle"
    /\ CallsBegun < MaxCalls
    /\ frame' = [frame EXCEPT ![t] =
                    [IdleFrame EXCEPT !.pc = "parser_start",
                                      !.raw_input = raw_input]]
    /\ held' = [held EXCEPT ![t] = NothingHeld]
    /\ UNCHANGED <<expenses, logs, heap, clock, history, tampers>>

\* InputParserAgent.execute: the start event.
ParserStart(t) ==
    /\ frame[t].pc = "parser_start"
    /\ LET message == <<"Parsing input: ">> \o frame[t].raw_input.text
           l == log(logs, heap, clock, "InputParserAgent", "start", message, 0)
       IN  /\ logs' = l.logs
           /\ heap' = l.heap
           /\ frame' = [frame EXCEPT ![t] =
                [Emit(@, "InputParserAgent", "start", message)
                    EXCEPT !.pc = "parse"]]
    /\ clock' = clock + 1
    /\ UNCHANGED <<expenses, held, history, tampers>>

\* InputParserAgent.execute: parse succeeds; the success event carries the
\* parsed_data dict itself, which is also what execute returns.
ParserParse(t) ==
    /\ frame[t].pc = "parse"
    /\ ~ParseRaises(frame[t].raw_input)
    /\ LET parsed_data == parse(frame[t].raw_input.text, clock)
           addr == Len(heap) + 1
           message == <<"Successfully parsed expense">>
           l == log(logs, Append(heap, parsed_data), clock + 1,
                    "InputParserAgent", "success", message, addr)
       IN  /\ logs' = l.logs
           /\ heap' = l.heap
           /\ frame' = [frame EXCEPT ![t] =
                [Emit(@, "InputParserAgent", "success", message)
                    EXCEPT !.pc = "classifier_start", !.parsed_data = addr]]
    /\ clock' = clock + 2
    /\ UNCHANGED <<expenses, held, history, tampers>>

\* InputParserAgent.execute: parse raises.
ParserRaise(t) ==
    /\ frame[t].pc = "parse"
    /\ ParseRaises(frame[t].raw_input)
    /\ frame' = [frame EXCEPT ![t].pc = "parser_except",
                              ![t].exc = ParseError(frame[t].raw_input)]
    /\ UNCHANGED <<expenses, logs, heap, clock, held, history, tampers>>

\* except Exception: raise -- the clause without its log call.
StageHandlerSilent(agent_name, e) ==
    [logged |-> FALSE, message |-> <<>>, raised |-> e]

\* The except clause of a stage's execute, for the exception e it caught:
\* whether it logs, the message it logs, and the exception it raises.
StageHandler(agent_name, e) ==
    [logged |-> TRUE,
     message |-> (IF agent_name = "InputParserAgent"
                  THEN <<"Failed to parse: ">>
                  ELSE <<"Analysis failed: ">>) \o e.reason,
     raised |-> e]

\* The stage whose try block the thread's exception was raised in.
RaisingAgent(pc) ==
    IF pc = "parser_except" THEN "InputParserAgent" ELSE "BudgetAnalyzerAgent"

\* InputParserAgent.execute, BudgetAnalyzerAgent.execute: the except clause
\* logs the error and re-raises.  (CategoryClassifierAgent.execute has the
\* same clause; nothing in its try block raises on a parsed candidate.)
StageExcept(t) ==
    /\ frame[t].pc \in {"parser_except", "analyzer_except"}
    /\ LET agent_name == RaisingAgent(frame[t].pc)
           h == StageHandler(agent_name, frame[t].exc)
           l == log(logs, heap, clock, agent_name, "error", h.message, 0)
       IN  IF h.logged
           THEN /\ logs' = l.logs
                /\ heap' = l.heap
                /\ clock' = clock + 1
                /\ frame' = [frame EXCEPT ![t] =
                     [Emit(@, agent_name, "error", h.message)
                         EXCEPT !.pc = "system_except", !.exc = h.raised]]
           ELSE /\ frame' = [frame EXCEPT ![t].pc = "system_except",
                                          ![t].exc = h.raised]
                /\ UNCHANGED <<logs, heap, clock>>
    /\ UNCHANGED <<expenses, held, history, tampers>>

\* CategoryClassifierAgent.execute: description is read, then the start event.
ClassifierStart(t) ==
    /\ frame[t].pc = "classifier_start"
    /\ LET description == heap[frame[t].parsed_data].description
           message == <<"Classifying: ">> \o description
           l == log(logs, heap, clock, "CategoryClassifierAgent", "start",
                    message, 0)
       IN  /\ logs' = l.logs
           /\ heap' = l.heap
           /\ frame' = [frame EXCEPT ![t] =
                [Emit(@, "CategoryClassifierAgent", "start", message)
                    EXCEPT !.pc = "classify"]]
    /\ clock' = clock + 1
    /\ UNCHANGED <<expenses, held, history, tampers>>

\* parsed_expense['category'] = category, on the dict object itself.
SetCategory(d, category) ==
    [k \in DOMAIN d \cup {"category"} |->
        IF k = "category" THEN category ELSE d[k]]

\* CategoryClassifierAgent.execute: classify, store the category in the
\* candidate, log success with a new dict {'category': category}.
ClassifierClassify(t) ==
    /\ frame[t].pc = "classify"
    /\ LET pd == frame[t].parsed_data
           category == classify(heap[pd].description)
           heap1 == [heap EXCEPT ![pd] = SetCategory(@, category)]
           heap2 == Append(heap1, [category |-> category])
           message == <<"Classified as: ", category>>
           l == log(logs, heap2, clock, "CategoryClassifierAgent", "success",
                    message, Len(heap2))
       IN  /\ logs' = l.logs
           /\ heap' = l.heap
           /\ frame' = [frame EXCEPT ![t] =
                [Emit(@, "CategoryClassifierAgent", "success", message)
                    EXCEPT !.pc = "analyzer_start"]]
    /\ clock' = clock + 1
    /\ UNCHANGED <<expenses, held, history, tampers>>

\* BudgetAnalyzerAgent.execute: the start event.
AnalyzerStart(t) ==
    /\ frame[t].pc = "analyzer_start"
    /\ LET message == <<"Analyzing budget impact">>
           l == log(logs, heap, clock, "BudgetAnalyzerAgent", "start", message, 0)
       IN  /\ logs' = l.logs
           /\ heap' = l.heap
           /\ frame' = [frame EXCEPT ![t] =
                [Emit(@, "BudgetAnalyzerAgent", "start", message)
                    EXCEPT !.pc = "create_expense"]]
    /\ clock' = clock + 1
    /\ UNCHANGED <<expenses, held, history, tampers>>

\* f"exp_{n}"
ExpenseId(n) == <<"exp_", n>>

\* The Expense the analyzer builds from the classified candidate.
NewExpense(exps, classified_expense) ==
    [id |-> ExpenseId(Len(exps) + 1),
     amount |-> classified_expense.amount,
     currency |-> classified_expense.currency,
     description |-> classified_expense.description,
     category |-> classified_expense.category,
     timestamp |-> classified_expense.parsed_at,
     raw_input |-> classified_expense.raw_input]

\* BudgetAnalyzerAgent.execute: the Expense object is created.
AnalyzerCreate(t) ==
    /\ frame[t].pc = "create_expense"
    /\ heap' = Append(heap, NewExpense(expenses, heap[frame[t].parsed_data]))
    /\ frame' = [frame EXCEPT ![t].pc = "add_expense",
                              ![t].expense = Len(heap) + 1]
    /\ UNCHANGED <<expenses, logs, clock, held, history, tampers>>

\* BudgetAnalyzerAgent.execute: self.session_state.add_expense(expense).
AnalyzerAdd(t) ==
    /\ frame[t].pc = "add_expense"
    /\ expenses' = add_expense(expenses, frame[t].expense)
    /\ frame' = [frame EXCEPT ![t].pc = "generate_insights"]
    /\ UNCHANGED <<logs, heap, clock, held, history, tampers>>

\* BudgetAnalyzerAgent.execute: insights = self._generate_insights(); an
\* exception it raised goes to the except clause.
AnalyzerInsights(t) ==
    /\ frame[t].pc = "generate_insights"
    /\ LET insights == generate_insights(expenses, heap)
       IN  IF Raised(insights)
           THEN /\ frame' = [frame EXCEPT ![t].pc = "analyzer_except",
                                          ![t].exc = insights.exception]
                /\ UNCHANGED heap
           ELSE /\ heap' = Append(heap, insights)
                /\ frame' = [frame EXCEPT ![t].pc = "analyzer_success",
                                          ![t].insights = Len(heap) + 1]
    /\ UNCHANGED <<expenses, logs, clock, held, history, tampers>>

\* BudgetAnalyzerAgent.execute builds the result and logs success with the
\* insights dict itself; process_expense returns the result to its caller.
AnalyzerSuccess(t) ==
    /\ frame[t].pc = "analyzer_success"
    /\ LET result == [expense |-> to_dict(heap, frame[t].expense),
                      insights |-> frame[t].insights]
           message == <<"Analysis complete">>
           l == log(logs, heap, clock, "BudgetAnalyzerAgent", "success",
                    message, frame[t].insights)
       IN  /\ logs' = l.logs
           /\ heap' = l.heap
           /\ frame' = [frame EXCEPT ![t] =
                [Emit(@, "BudgetAnalyzerAgent", "success", message)
                    EXCEPT !.pc = "idle"]]
           /\ held' = [held EXCEPT ![t].outcome = "returned",
                                   ![t].result = result]
    /\ clock' = clock + 1
    /\ history' = Append(history, [raw_input |-> frame[t].raw_input,
                                   returned |-> TRUE])
    /\ UNCHANGED <<expenses, tampers>>

\* raise RuntimeError(f"Pipeline failed: {e}"): a new exception in place of
\* the one caught.
SystemHandlerWrap(e) ==
    [message |-> <<"Pipeline failed: ">> \o e.reason,
     raised |-> [type |-> "RuntimeError",
                 reason |-> <<"Pipeline failed: ">> \o e.reason]]

\* What process_expense's except clause does with the exception it caught.
SystemHandler(e) ==
    [message |-> <<"Pipeline failed: ">> \o e.reason, raised |-> e]

\* process_expense: the except clause logs the error and re-raises to the
\* caller.
SystemExcept(t) ==
    /\ frame[t].pc = "system_except"
    /\ LET h == SystemHandler(frame[t].exc)
           l == log(logs, heap, clock, "System", "error", h.message, 0)
       IN  /\ logs' = l.logs
           /\ heap' = l.heap
           /\ frame' = [frame EXCEPT ![t] =
                [Emit(@, "System", "error", h.message) EXCEPT !.pc = "idle"]]
           /\ held' = [held EXCEPT ![t].outcome = "raised",
                                   ![t].error = h.raised]
    /\ clock' = clock + 1
    /\ history' = Append(history, [raw_input |-> frame[t].raw_input,
                                   returned |-> FALSE])
    /\ UNCHANGED <<expenses, tampers>>

\* ------------------------------------------------------------------ callers

\* get_summary with a log call added: the request is recorded as an event.
GetSummaryLogging(t) ==
    /\ frame[t].pc = "idle"
    /\ held' = [held EXCEPT ![t].summary = get_summary(expenses, heap)]
    /\ LET l == log(logs, heap, clock, "System", "info",
                    <<"Summary requested">>, 0)
       IN  logs' = l.logs /\ heap' = l.heap
    /\ clock' = clock + 1
    /\ UNCHANGED <<expenses, frame, history, tampers>>

\* A caller calls get_summary.
GetSummary(t) ==
    /\ frame[t].pc = "idle"
    /\ held' = [held EXCEPT ![t].summary = get_summary(expenses, heap)]
    /\ UNCHANGED <<expenses, logs, heap, clock, frame, history, tampers>>

\* A caller calls logger.get_logs.
GetLogs(t) ==
    /\ frame[t].pc = "idle"
    /\ held' = [held EXCEPT ![t].logs = get_logs(logs)]
    /\ UNCHANGED <<expenses, logs, heap, clock, frame, history, tampers>>

\* A caller assigns to a key of the expense dict a process call returned.
TamperExpense(t) ==
    /\ frame[t].pc = "idle"
    /\ tampers < MaxTampers
    /\ held[t].outcome = "returned"
    /\ LET h == held[t].result.expense
           d == [h.dict EXCEPT !.amount = -1]
       IN  /\ h.dict.amount # -1
           /\ IF h.ref = 0
              THEN /\ held' = [held EXCEPT ![t].result.expense.dict = d]
                   /\ UNCHANGED heap
              ELSE /\ heap' = [heap EXCEPT ![h.ref] = d]
                   /\ held' = [held EXCEPT ![t].result.expense.dict = d]
    /\ tampers' = tampers + 1
    /\ UNCHANGED <<expenses, logs, clock, frame, history>>

\* A caller assigns to a key of the insights dict a process call returned.
TamperInsights(t) ==
    /\ frame[t].pc = "idle"
    /\ tampers < MaxTampers
    /\ held[t].outcome = "returned"
    /\ heap[held[t].result.insights].total_spending # -1
    /\ heap' = [heap EXCEPT ![held[t].result.insights].total_spending = -1]
    /\ tampers' = tampers + 1
    /\ UNCHANGED <<expenses, logs, clock, frame, held, history>>

\* A caller assigns to the statistics and to the first expense dict of a
\* summary it holds.
TamperSummary(t) ==
    /\ frame[t].pc = "idle"
    /\ tampers < MaxTampers
    /\ held[t].summary.taken
    /\ held[t].summary.statistics.total_spending # -1
    /\ LET s == held[t].summary
           first == IF s.all_expenses = <<>> THEN 0 ELSE s.all_expenses[1].ref
           s1 == [s EXCEPT !.statistics.total_spending = -1]
           s2 == IF s.all_expenses = <<>> THEN s1
                 ELSE [s1 EXCEPT !.all_expenses[1].dict.amount = -1]
       IN  /\ held' = [held EXCEPT ![t].summary = s2]
           /\ heap' = IF first = 0 THEN heap
                      ELSE [heap EXCEPT ![first].amount = -1]
    /\ tampers' = tampers + 1
    /\ UNCHANGED <<expenses, logs, clock, frame, history>>

\* A caller changes the list get_logs returned: it clears it, or rewrites a
\* field of its first entry.
TamperLogs(t, how) ==
    /\ frame[t].pc = "idle"
    /\ tampers < MaxTampers
    /\ held[t].logs.taken
    /\ LET mine == held[t].logs
           list == IF mine.alias THEN logs ELSE mine.list
           changed == IF how = "clear" THEN <<>>
                      ELSE [list EXCEPT ![1].event_type = "tampered"]
       IN  /\ list # <<>>
           /\ changed # list
           /\ IF mine.alias
              THEN /\ logs' = changed
                   /\ UNCHANGED held
              ELSE /\ held' = [held EXCEPT ![t].logs.list = changed]
                   /\ UNCHANGED logs
    /\ tampers' = tampers + 1
    /\ UNCHANGED <<expenses, heap, clock, frame, history>>

\* ------------------------------------------------------------ specification

\* The steps of a process_expense call under way.
PipelineStep(t) ==
    \/ ParserStart(t)
    \/ ParserParse(t)
    \/ ParserRaise(t)
    \/ StageExcept(t)
    \/ ClassifierStart(t)
    \/ ClassifierClassify(t)
    \/ AnalyzerStart(t)
    \/ AnalyzerCreate(t)
    \/ AnalyzerAdd(t)
    \/ AnalyzerInsights(t)
    \/ AnalyzerSuccess(t)
    \/ SystemExcept(t)

\* One caller, one call at a time: process_expense, get_summary, get_logs.
Next ==
    \E t \in MainThread :
        \/ \E raw_input \in Inputs : ProcessExpense(t, raw_input)
        \/ PipelineStep(t)
        \/ GetSummary(t)
        \/ GetLogs(t)

Spec == Init /\ [][Next]_vars

\* The same caller, who also assigns to the values its calls returned.
NextCallers ==
    \E t \in MainThread :
        \/ \E raw_input \in CallerInputs : ProcessExpense(t, raw_input)
        \/ PipelineStep(t)
        \/ GetSummary(t)
        \/ GetLogs(t)
        \/ TamperExpense(t)
        \/ TamperInsights(t)
        \/ TamperSummary(t)
        \/ \E how \in {"clear", "edit"} : TamperLogs(t, how)

SpecCallers == Init /\ [][NextCallers]_vars

\* One call that runs the parser and the classifier on a description.
NextClassifier ==
    \E t \in MainThread :
        \/ /\ CallsBegun = 0
           /\ \E description \in Descriptions :
                 ProcessExpense(t, Str(description))
        \/ ParserStart(t)
        \/ ParserParse(t)
        \/ ClassifierStart(t)
        \/ ClassifierClassify(t)

SpecClassifier == Init /\ [][NextClassifier]_vars

\* One call that runs the parser on a text.
NextParser ==
    \E t \in MainThread :
        \/ /\ CallsBegun = 0
           /\ \E text \in Texts : ProcessExpense(t, Str(text))
        \/ ParserStart(t)
        \/ ParserParse(t)

SpecParser == Init /\ [][NextParser]_vars

\* The steps of a process_expense call whose argument is a str: no stage
\* raises.
StrCallStep(t) ==
    \/ ParserStart(t)
    \/ ParserParse(t)
    \/ ClassifierStart(t)
    \/ ClassifierClassify(t)
    \/ AnalyzerStart(t)
    \/ AnalyzerCreate(t)
    \/ AnalyzerAdd(t)
    \/ AnalyzerInsights(t)
    \/ AnalyzerSuccess(t)

\* One caller processing the demo texts, in any order, and reading the
\* summary.
NextDemo ==
    \E t \in MainThread :
        \/ \E raw_input \in DemoInputs : ProcessExpense(t, raw_input)
        \/ StrCallStep(t)
        \/ GetSummary(t)

SpecDemo == Init /\ [][NextDemo]_vars

\* server.process_expense on a threadpool thread: orchestrator.process_expense
\* on the module's one orchestrator, then orchestrator.get_summary, then the
\* response; a thread takes its next request after that.  Nothing orders the
\* steps of two threads.
NextServer ==
    \E t \in Threads :
        \/ /\ CallsBegun < MaxRequests
           /\ held[t].outcome = "none" \/ held[t].summary.taken
           /\ \E raw_input \in ServerInputs : ProcessExpense(t, raw_input)
        \/ StrCallStep(t)
        \/ /\ held[t].outcome = "returned"
           /\ ~held[t].summary.taken
           /\ GetSummary(t)

SpecServer == Init /\ [][NextServer]_vars

\* ------------------------------------------------------------------ claims

AllIdle == \A t \in Threads : frame[t].pc = "idle"

\* The inputs of the calls that returned, in the order they returned.
RECURSIVE ReturnedInputs(_)
ReturnedInputs(h) ==
    IF h = <<>> THEN <<>>
    ELSE LET rest == ReturnedInputs(SubSeq(h, 1, Len(h) - 1))
         IN  IF h[Len(h)].returned THEN Append(rest, h[Len(h)].raw_input)
             ELSE rest

\* The amount written in each input of the model, in hundredths.
WrittenAmount(raw_input) ==
    CASE raw_input = InputChai -> 500
      [] raw_input = InputGas -> 700
      [] raw_input = InputTea -> 200
      [] raw_input = InputWifi -> 0

RECURSIVE SumWritten(_)
SumWritten(inputs) ==
    IF inputs = <<>> THEN 0
    ELSE SumWritten(Tail(inputs)) + WrittenAmount(Head(inputs))

RECURSIVE SumItems(_)
\* sum(category_totals.values())
SumItems(totals) ==
    IF totals = <<>> THEN 0 ELSE SumItems(Tail(totals)) + Head(totals).amount

\* C1: between calls, after N process calls returned, the ledger's count is
\* N, its total is the sum of the amounts of the inputs of those calls, and
\* the values of category_totals sum to that total.
C1_LedgerTotals ==
    AllIdle =>
        /\ get_expense_count(expenses) = Len(ReturnedInputs(history))
        /\ get_total(expenses, heap) = SumWritten(ReturnedInputs(history))
        /\ SumItems(get_category_totals(expenses, heap))
              = SumWritten(ReturnedInputs(history))

\* Three calls returned, two of them in the same category.
C1_Witness ==
    /\ AllIdle
    /\ Len(ReturnedInputs(history)) = 3
    /\ Len(get_category_totals(expenses, heap)) = 2
    /\ get_total(expenses, heap) > 0

\* The inputs whose records the ledger holds: those of the calls that
\* returned, then those of the calls that have appended and not yet returned.
AppendedInputs ==
    LET appended == {t \in Threads :
                        /\ frame[t].pc \in {"generate_insights", "analyzer_success",
                                             "analyzer_except", "system_except"}
                        /\ frame[t].expense # 0}
    IN  ReturnedInputs(history)
            \o (IF appended = {} THEN <<>>
                ELSE <<frame[CHOOSE t \in appended : TRUE].raw_input>>)

\* C2: in every state the k-th record of the ledger is the record of the
\* k-th append and has id number k, so ids increase along the ledger and no
\* two records share one.
C2_IdsSequential ==
    /\ Len(expenses) = Len(AppendedInputs)
    /\ \A k \in 1..Len(expenses) :
          /\ heap[expenses[k]].id = <<"exp_", k>>
          /\ heap[expenses[k]].raw_input = AppendedInputs[k].text
    /\ \A j, k \in 1..Len(expenses) :
          j < k => heap[expenses[j]].id[2] < heap[expenses[k]].id[2]

\* Two records, with a failed call between their appends.
C2_Witness ==
    /\ Len(expenses) = 2
    /\ Len(history) = 3
    /\ ~history[2].returned

RECURSIVE LedgerSum(_, _, _)
\* The sum of the amounts of the ledger's records of category c, and of all
\* its records for c = "*".
LedgerSum(exps, hp, c) ==
    IF exps = <<>> THEN 0
    ELSE LedgerSum(Tail(exps), hp, c)
         + (IF c = "*" \/ hp[Head(exps)].category = c
            THEN hp[Head(exps)].amount ELSE 0)

LedgerCategories(exps, hp) == {hp[exps[k]].category : k \in 1..Len(exps)}

\* The breakdown names each category of the ledger once, with the sum of
\* that category's records.
BreakdownOfLedger(breakdown, exps, hp) ==
    /\ {breakdown[i].category : i \in 1..Len(breakdown)}
          = LedgerCategories(exps, hp)
    /\ Len(breakdown) = Cardinality(LedgerCategories(exps, hp))
    /\ \A i \in 1..Len(breakdown) :
          breakdown[i].amount = LedgerSum(exps, hp, breakdown[i].category)

\* C3: when a process call returns, the insights it returns give the
\* ledger's count, total and per-category totals as the ledger then stands,
\* the record just appended included, and get_summary called at that point
\* reports the same three statistics.
C3_SnapshotConsistent ==
    [][\A t \in Threads :
        (frame[t].pc = "analyzer_success" /\ frame'[t].pc = "idle") =>
            LET insights == heap'[held'[t].result.insights]
                statistics == get_summary(expenses', heap').statistics
                last == heap'[expenses'[Len(expenses')]]
            IN  /\ insights.expense_count = Len(expenses')
                /\ insights.total_spending = LedgerSum(expenses', heap', "*")
                /\ BreakdownOfLedger(insights.category_breakdown,
                                     expenses', heap')
                /\ held'[t].result.expense.dict = last
                /\ last.raw_input = frame[t].raw_input.text
                /\ statistics.total_expenses = insights.expense_count
                /\ statistics.total_spending = insights.total_spending
                /\ statistics.category_breakdown
                      = insights.category_breakdown]_vars

\* A second call returned and the caller took the summary right after it.
C3_Witness ==
    \E t \in Threads :
        /\ frame[t].pc = "idle"
        /\ held[t].outcome = "returned"
        /\ held[t].summary.taken
        /\ tampers = 0
        /\ Len(expenses) = 2
        /\ held[t].summary.statistics.total_spending
              = heap[held[t].result.insights].total_spending

Stages == {"InputParserAgent", "CategoryClassifierAgent", "BudgetAnalyzerAgent"}

\* Where a call stands inside the try block of the stage's execute.
Working(agent_name) ==
    CASE agent_name = "InputParserAgent" -> {"parse", "parser_except"}
      [] agent_name = "CategoryClassifierAgent" -> {"classify"}
      [] agent_name = "BudgetAnalyzerAgent" ->
            {"create_expense", "add_expense", "generate_insights",
             "analyzer_success", "analyzer_except"}

\* The event types the stage has logged in the thread's current (or latest)
\* call, in order.
StageEvents(t, agent_name) ==
    LET OfStage(e) == e.agent = agent_name
        mine == SelectSeq(frame[t].emitted, OfStage)
    IN  [i \in 1..Len(mine) |-> mine[i].event_type]

\* The events the call has emitted are the last entries of the log.
EmittedIsLogTail(t) ==
    LET n == Len(frame[t].emitted)
    IN  /\ n <= Len(logs)
        /\ \A i \in 1..n :
              LET entry == logs[Len(logs) - n + i]
              IN  Emitted(entry.agent, entry.event_type, entry.message)
                    = frame[t].emitted[i]

\* C4: a stage's events in one call are a start event and then one event
\* that is success or error: while the call is inside the stage's try block
\* the start event is there and nothing after it, once it has left the stage
\* exactly one success or error event follows the start event, and these
\* events are in the log.
C4_StartThenOneOutcome ==
    \A t \in Threads :
        /\ frame[t].pc # "idle" => EmittedIsLogTail(t)
        /\ \A agent_name \in Stages :
              /\ StageEvents(t, agent_name)
                    \in {<<>>, <<"start">>, <<"start", "success">>,
                         <<"start", "error">>}
              /\ frame[t].pc \in Working(agent_name)
                    <=> StageEvents(t, agent_name) = <<"start">>

\* After a call that returned, a call whose parser stage failed has ended.
C4_Witness ==
    \E t \in Threads :
        /\ frame[t].pc = "idle"
        /\ held[t].outcome = "raised"
        /\ StageEvents(t, "InputParserAgent") = <<"start", "error">>
        /\ Len(history) = 2
        /\ history[1].returned

\* The message ends with the text.
EndsWith(message, text) ==
    /\ Len(text) <= Len(message)
    /\ SubSeq(message, Len(message) - Len(text) + 1, Len(message)) = text

\* The stage has logged an error event whose message ends with str(e), and
\* the event is in the log.
ErrorLogged(t, e) ==
    \E i \in 1..Len(frame[t].emitted) :
        /\ frame[t].emitted[i].agent \in Stages
        /\ frame[t].emitted[i].event_type = "error"
        /\ EndsWith(frame[t].emitted[i].message, e.reason)
        /\ e.reason # <<>>

\* C5: when a stage has raised, its error event with the stringified reason
\* is in the log while the exception is still on its way to the caller; the
\* caller gets the very exception the stage raised; and no stage was started
\* twice in the call.
C5_ErrorLoggedThenPropagated ==
    \A t \in Threads :
        /\ frame[t].pc = "system_except" =>
              /\ ErrorLogged(t, frame[t].exc)
              /\ EmittedIsLogTail(t)
              /\ frame[t].exc = ParseError(frame[t].raw_input)
        /\ (frame[t].pc = "idle" /\ held[t].outcome = "raised") =>
              /\ held[t].error = ParseError(frame[t].raw_input)
              /\ ErrorLogged(t, held[t].error)
        /\ \A agent_name \in Stages :
              \A i, j \in 1..Len(frame[t].emitted) :
                  (/\ frame[t].emitted[i].agent = agent_name
                   /\ frame[t].emitted[j].agent = agent_name
                   /\ frame[t].emitted[i].event_type = "start"
                   /\ frame[t].emitted[j].event_type = "start") => i = j

\* A call has raised to its caller.
C5_Witness ==
    \E t \in Threads :
        /\ frame[t].pc = "idle"
        /\ held[t].outcome = "raised"
        /\ held[t].error.type = "TypeError"
        /\ Len(frame[t].emitted) = 3

\* C6: the step by which a process call raises to its caller finds the ledger
\* holding the records of the calls that returned and no other, leaves it so,
\* and the call has built no Expense and no insights.
C6_FailureLeavesNoPartialState ==
    [][\A t \in Threads :
        (frame[t].pc = "system_except" /\ frame'[t].pc = "idle") =>
            LET returned == ReturnedInputs(history')
            IN  /\ held'[t].outcome = "raised"
                /\ expenses' = expenses
                /\ Len(expenses') = Len(returned)
                /\ \A k \in 1..Len(expenses') :
                      heap'[expenses'[k]].raw_input = returned[k].text
                /\ LedgerSum(expenses', heap', "*") = SumWritten(returned)
                /\ frame'[t].expense = 0
                /\ frame'[t].insights = 0
                /\ held'[t].result = NothingHeld.result]_vars

\* A call raised on a ledger that held a record.
C6_Witness ==
    \E t \in Threads :
        /\ frame[t].pc = "idle"
        /\ held[t].outcome = "raised"
        /\ Len(expenses) >= 1

\* C7: no step removes, moves or changes a record of the ledger, whatever
\* callers assign to the values returned to them.
C7_RecordsImmutable ==
    [][\A k \in 1..Len(expenses) :
        /\ k <= Len(expenses')
        /\ expenses'[k] = expenses[k]
        /\ heap'[expenses[k]] = heap[expenses[k]]]_vars

\* A caller has assigned to the expense dict a call returned, and to the
\* first expense dict of a summary.
C7_Witness ==
    \E t \in Threads :
        /\ tampers > 0
        /\ Len(expenses) >= 1
        /\ \/ /\ held[t].outcome = "returned"
              /\ held[t].result.expense.dict.amount = -1
           \/ /\ held[t].summary.taken
              /\ held[t].summary.all_expenses # <<>>
              /\ held[t].summary.all_expenses[1].dict.amount = -1

\* C8: no step removes an entry of the log or changes what an entry says:
\* its agent, event type, message, or the data dict it carries.
C8_LogAdditive ==
    [][\A i \in 1..Len(logs) :
        /\ i <= Len(logs')
        /\ logs'[i] = logs[i]
        /\ heap'[logs[i].data] = heap[logs[i].data]]_vars

\* The classifier has stored the category in the candidate after the parser
\* logged that candidate as the data of its success event.
C8_Witness ==
    \E t \in Threads :
        /\ frame[t].pc = "analyzer_start"
        /\ \E i \in 1..Len(logs) :
              /\ logs[i].agent = "InputParserAgent"
              /\ logs[i].event_type = "success"
              /\ logs[i].data = frame[t].parsed_data
              /\ "category" \in DOMAIN heap[logs[i].data]

\* C9: what a caller does to a value a call returned to it, the value of
\* get_logs included, leaves the logger's log as it was.
C9_GetLogsIsSnapshot ==
    [][\A t \in Threads :
        (held[t].logs.taken /\ tampers' = tampers + 1) => logs' = logs]_vars

\* A caller holds the value of get_logs while the log has entries.
C9_Witness ==
    \E t \in Threads : held[t].logs.taken /\ logs # <<>> /\ tampers = 0

\* The first position of the ledger that holds a record of the category.
FirstEntered(exps, hp, c) ==
    CHOOSE k \in 1..Len(exps) :
        /\ hp[exps[k]].category = c
        /\ \A j \in 1..(k - 1) : hp[exps[j]].category # c

\* C10: the top_category of the insights a call has computed names a category
\* of the ledger whose total no category's total exceeds, gives that total as
\* its amount, and among categories of equal total names the one that
\* entered the ledger first; on an empty ledger it is none with amount 0.
C10_TopCategory ==
    /\ generate_insights(<<>>, heap).top_category = [name |-> "none", amount |-> 0]
    /\ \A t \in Threads :
          frame[t].pc = "analyzer_success" =>
            LET top == heap[frame[t].insights].top_category
                breakdown == heap[frame[t].insights].category_breakdown
            IN  /\ \E i \in 1..Len(breakdown) :
                      /\ breakdown[i].category = top.name
                      /\ breakdown[i].amount = top.amount
                /\ top.name \in LedgerCategories(expenses, heap)
                /\ top.amount = LedgerSum(expenses, heap, top.name)
                /\ \A c \in LedgerCategories(expenses, heap) :
                      /\ LedgerSum(expenses, heap, c) <= top.amount
                      /\ LedgerSum(expenses, heap, c) = top.amount =>
                            FirstEntered(expenses, heap, top.name)
                              <= FirstEntered(expenses, heap, c)

\* Two categories share the highest total, and the one named is not the one
\* that reached that total first.
C10_Witness ==
    \E t \in Threads :
        /\ frame[t].pc = "analyzer_success"
        /\ LET top == heap[frame[t].insights].top_category
           IN  /\ top.amount > 0
               /\ \E c \in LedgerCategories(expenses, heap) :
                     /\ c # top.name
                     /\ LedgerSum(expenses, heap, c) = top.amount
                     /\ heap[expenses[Len(expenses)]].category = top.name

\* C11: a get_summary call changes neither the ledger, nor the log, nor any
\* object of the heap, nor the clock, and when the caller already holds a
\* summary taken since the last process call, the call returns that same
\* value again.
C11_SummaryPureRead ==
    [][\A t \in Threads :
        (/\ frame[t].pc = "idle"
         /\ frame'[t].pc = "idle"
         /\ held'[t].summary.taken) =>
            /\ expenses' = expenses
            /\ logs' = logs
            /\ heap' = heap
            /\ clock' = clock
            /\ held'[t].summary = get_summary(expenses', heap')
            /\ held[t].summary.taken => held'[t].summary = held[t].summary]_vars

\* A summary of a ledger of two records is held, and the log was read after.
C11_Witness ==
    \E t \in Threads :
        /\ frame[t].pc = "idle"
        /\ held[t].summary.taken
        /\ held[t].logs.taken
        /\ Len(held[t].summary.all_expenses) = 2
        /\ held[t].summary.statistics.total_spending
              = LedgerSum(expenses, heap, "*")

\* The category names in the order the classifier tries them.
CategoryOrder ==
    <<"food", "transportation", "entertainment", "utilities", "shopping",
      "healthcare", "other">>

\* Some keyword the table lists under the i-th category occurs in the
\* lower-cased description.
KeywordOccurs(description, i) ==
    \E k \in 1..Len(categories[i].keywords) :
        Contains(Lower(description), categories[i].keywords[k])

\* C12: the category the classifier stage writes is one of the seven names;
\* it is "other" exactly when no keyword of any category occurs in the
\* lower-cased description; otherwise it is the first category of the order
\* one of whose keywords occurs; and a description that contains "gas" is
\* never classified under the later of its two categories (utilities), and is
\* classified under the earlier one (transportation) unless food matches.
C12_ClassifyFirstMatch ==
    \A t \in Threads :
        frame[t].pc = "analyzer_start" =>
            LET description == frame[t].raw_input.text
                category == heap[frame[t].parsed_data].category
            IN  /\ \E i \in 1..Len(CategoryOrder) : category = CategoryOrder[i]
                /\ \A i \in 1..Len(CategoryOrder) :
                      categories[i].category = CategoryOrder[i]
                /\ category = "other" <=>
                      \A i \in 1..Len(CategoryOrder) :
                          ~KeywordOccurs(description, i)
                /\ \A i \in 1..Len(CategoryOrder) :
                      (category = CategoryOrder[i] /\ category # "other") =>
                          /\ KeywordOccurs(description, i)
                          /\ \A j \in 1..(i - 1) :
                                ~KeywordOccurs(description, j)
                /\ Contains(Lower(description), <<"g", "a", "s">>) =>
                      /\ category # "utilities"
                      /\ ~KeywordOccurs(description, 1) =>
                            category = "transportation"

\* "Gas vi" was classified: "gas" is listed under transportation and under
\* utilities, "vi" under utilities only, and the category is transportation.
C12_Witness ==
    \E t \in Threads :
        /\ frame[t].pc = "analyzer_start"
        /\ frame[t].raw_input.text = <<"G", "a", "s", " ", "v", "i">>
        /\ heap[frame[t].parsed_data].category = "transportation"

\* The positions of `text` where a numeral starts that is prefixed by `sym`,
\* with nothing but whitespace between the two.
PrefixedNumerals(text, sym) ==
    {j \in 1..Len(text) :
        /\ IsDigitAt(text, j)
        /\ \E i \in 1..j :
              /\ i + Len(sym) <= j
              /\ LiteralAt(text, i, sym)
              /\ \A k \in (i + Len(sym))..(j - 1) : text[k] \in Whitespace}

\* The positions of `text` that hold a digit.
BareNumerals(text) == {j \in 1..Len(text) : text[j] \in Digits}

\* The least position of a nonempty set of positions.
First(positions) == CHOOSE j \in positions : \A k \in positions : j <= k

\* C13: the parser stage never fails on a text, and what it extracts follows
\* a fixed priority whatever the positions of the tokens: when a numeral
\* prefixed by the primary symbol occurs, the amount is the first such
\* numeral and the currency the primary symbol; otherwise, when a numeral
\* prefixed by the secondary symbol occurs, the first such numeral with the
\* secondary symbol; otherwise, when a digit occurs, the first numeral with
\* the default symbol; otherwise amount 0 with the default symbol.
C13_ExtractPriority ==
    \A t \in Threads :
        /\ (frame[t].pc = "parse" /\ frame[t].raw_input.is_str) =>
              ~ParseRaises(frame[t].raw_input)
        /\ frame[t].pc = "classifier_start" =>
              LET text == frame[t].raw_input.text
                  parsed_data == heap[frame[t].parsed_data]
                  primary == PrefixedNumerals(text, RupeeSymbol)
                  secondary == PrefixedNumerals(text, DollarSymbol)
                  bare == BareNumerals(text)
              IN  IF primary # {}
                  THEN /\ parsed_data.amount
                            = NumeralAt(text, First(primary)).value
                       /\ parsed_data.currency = RupeeSymbol
                  ELSE IF secondary # {}
                  THEN /\ parsed_data.amount
                            = NumeralAt(text, First(secondary)).value
                       /\ parsed_data.currency = DollarSymbol
                  ELSE IF bare # {}
                  THEN /\ parsed_data.amount = NumeralAt(text, First(bare)).value
                       /\ parsed_data.currency = RupeeSymbol
                  ELSE /\ parsed_data.amount = 0
                       /\ parsed_data.currency = RupeeSymbol

\* A text was parsed in which a dollar numeral stands before the numeral
\* with the primary symbol, and the primary one was taken.
C13_Witness ==
    \E t \in Threads :
        /\ frame[t].pc = "classifier_start"
        /\ frame[t].raw_input.text = <<"$", "1">> \o RupeeSymbol \o <<"2">>
        /\ heap[frame[t].parsed_data].amount = 200
        /\ heap[frame[t].parsed_data].currency = RupeeSymbol

\* The scenario of the two demo texts with `symbol` as the currency of the
\* first record: the first call on a fresh orchestrator returns amount 500.0,
\* that currency and category food; the second returns amount 80.0 and
\* category transportation, with total 580.0, count 2, breakdown
\* {food: 500.0, transportation: 80.0} and top_category {food, 500.0}, and
\* the summary then taken reports the same total, count and breakdown.
ScenarioHolds(symbol) ==
    \A t \in Threads :
        (frame[t].pc = "idle" /\ held[t].outcome = "returned") =>
            LET record == held[t].result.expense.dict
                insights == heap[held[t].result.insights]
                breakdown == << [category |-> "food", amount |-> 50000],
                                [category |-> "transportation",
                                 amount |-> 8000] >>
            IN  /\ history = <<[raw_input |-> InputGroceries,
                                returned |-> TRUE]>> =>
                      /\ record.amount = 50000
                      /\ record.currency = symbol
                      /\ record.category = "food"
                /\ history = <<[raw_input |-> InputGroceries,
                                returned |-> TRUE],
                               [raw_input |-> InputRickshaw,
                                returned |-> TRUE]>> =>
                      /\ record.amount = 8000
                      /\ record.category = "transportation"
                      /\ insights.total_spending = 58000
                      /\ insights.expense_count = 2
                      /\ insights.category_breakdown = breakdown
                      /\ insights.top_category
                            = [name |-> "food", amount |-> 50000]
                      /\ held[t].summary.taken =>
                            /\ held[t].summary.statistics.total_spending
                                  = 58000
                            /\ held[t].summary.statistics.total_expenses = 2
                            /\ held[t].summary.statistics.category_breakdown
                                  = breakdown

\* C14: on a fresh orchestrator, "Spent [rupee sign]500 on groceries at
\* DMart" yields amount 500.0, the rupee sign as currency and category food;
\* "Auto rickshaw ride [rupee sign]80" next yields 80.0 and transportation;
\* after both the total is 580.0, the count 2, the breakdown {food: 500.0,
\* transportation: 80.0} and top_category {food, 500.0}.
C14_DemoScenario == ScenarioHolds(RupeeSign)

\* The first demo text was processed on a fresh orchestrator: the amount and
\* the category are the scenario's, the currency is the three code points of
\* the source file and not the rupee sign of the text.
C14_Witness ==
    \E t \in Threads :
        /\ frame[t].pc = "idle"
        /\ held[t].outcome = "returned"
        /\ history = <<[raw_input |-> InputGroceries, returned |-> TRUE]>>
        /\ held[t].result.expense.dict.amount = 50000
        /\ held[t].result.expense.dict.category = "food"
        /\ held[t].result.expense.dict.currency = RupeeSymbol
        /\ held[t].result.expense.dict.currency # RupeeSign

\* The stages in the order process_expense runs them.
StageOrder ==
    <<"InputParserAgent", "CategoryClassifierAgent", "BudgetAnalyzerAgent">>

\* Who logged what in the thread's current (or latest) call, in order.
EventKinds(t) ==
    [i \in 1..Len(frame[t].emitted) |->
        <<frame[t].emitted[i].agent, frame[t].emitted[i].event_type>>]

\* The events of a call in which the first n stages succeed.
RECURSIVE SucceededStages(_)
SucceededStages(n) ==
    IF n = 0 THEN << >>
    ELSE SucceededStages(n - 1)
            \o << <<StageOrder[n], "start">>, <<StageOrder[n], "success">> >>

\* The events of a call whose n-th stage fails.
FailedAt(n) ==
    SucceededStages(n - 1)
        \o << <<StageOrder[n], "start">>, <<StageOrder[n], "error">>,
              <<"System", "error">> >>

IsPrefix(s, r) == Len(s) <= Len(r) /\ s = SubSeq(r, 1, Len(s))

\* The latest event of the thread's call is the analyser's start event.
AfterAnalyzerStart(t) ==
    /\ frame[t].emitted # << >>
    /\ EventKinds(t)[Len(frame[t].emitted)]
          = <<"BudgetAnalyzerAgent", "start">>

\* C15: the events of a call are, in order, start and success of the
\* extraction stage, of the classification stage and of the analysis stage,
\* or such a run cut short by a stage's error event followed by the system's
\* error event and nothing more; a call that has ended has one of these full
\* runs; the ledger changes only in a step of a call whose latest event is
\* the analyser's start event, by one append; the ledger has the records of
\* the calls returned before when the analyser's start event is appended and
\* exactly one more when its success event is appended.
C15_StagesInOrder ==
    [][\A t \in MainThread :
        /\ \/ IsPrefix(EventKinds(t)', SucceededStages(3))
           \/ \E n \in 1..3 : IsPrefix(EventKinds(t)', FailedAt(n))
        /\ (frame'[t].pc = "idle" /\ frame[t].pc # "idle") =>
              \/ EventKinds(t)' = SucceededStages(3)
              \/ \E n \in 1..3 : EventKinds(t)' = FailedAt(n)
        /\ expenses' # expenses =>
              /\ AfterAnalyzerStart(t)
              /\ frame'[t].emitted = frame[t].emitted
              /\ Len(expenses') = Len(expenses) + 1
              /\ expenses = SubSeq(expenses', 1, Len(expenses))
              /\ expenses'[Len(expenses')] = frame[t].expense
        /\ (AfterAnalyzerStart(t)' /\ ~AfterAnalyzerStart(t)) =>
              Len(expenses') = Len(ReturnedInputs(history))
        /\ (frame'[t].emitted # frame[t].emitted /\ AfterAnalyzerStart(t)) =>
              Len(expenses') = Len(ReturnedInputs(history)) + 1]_vars

\* After a call that failed in the extraction stage, a call has appended its
\* record and has not yet logged the analyser's success.
C15_Witness ==
    \E t \in MainThread :
        /\ frame[t].pc = "generate_insights"
        /\ AfterAnalyzerStart(t)
        /\ EventKinds(t) = SubSeq(SucceededStages(3), 1, 5)
        /\ \E i \in 1..Len(history) : ~history[i].returned
        /\ Len(expenses) = Len(ReturnedInputs(history)) + 1
        /\ expenses[Len(expenses)] = frame[t].expense

\* C16: whatever the interleaving of the requests' process calls on the one
\* orchestrator, the records of the ledger have pairwise distinct ids, and
\* the ledger holds as many records as were appended: one for every call
\* that has returned or has passed its append.
C16_DistinctIdsWhenInterleaved ==
    /\ \A i, j \in 1..Len(expenses) :
          i # j => heap[expenses[i]].id # heap[expenses[j]].id
    /\ Len(expenses)
          = Len(history)
            + Cardinality({t \in Threads :
                frame[t].pc \in {"generate_insights", "analyzer_success"}})

\* Two requests were in flight together and both have returned: the ledger
\* holds two records, both with the id exp_1.
C16_Witness ==
    /\ AllIdle
    /\ Len(history) = 2
    /\ Len(expenses) = 2
    /\ heap[expenses[1]].id = ExpenseId(1)
    /\ heap[expenses[2]].id = ExpenseId(1)

====
